---- MODULE Spec2Model ----
(***************************************************************************)
(* Model of fw/examples/c_heater/src/main.c: the heater actuator, the      *)
(* three HTTP endpoint handlers, the MCP9808 temperature read and the      *)
(* single-flight periodic sensor report.                                   *)
(*                                                                         *)
(* Temperatures are kept in sixteenths of a degree (the sensor's           *)
(* resolution), so every double the program computes is an exact integer   *)
(* here.  Each handler runs to completion as one step; what it emitted     *)
(* during that invocation (log lines, bus operations, HTTP response,       *)
(* outbound requests) is kept in logs, bus, resp and posts.                *)
(***************************************************************************)
EXTENDS Integers, Sequences, FiniteSets, TLC

(* ----------------------------- constants ------------------------------ *)

LED_GPIO == 10
RELAY_GPIO == 13
I2C_SDA_GPIO == 12
I2C_SCL_GPIO == 14
MCP9808_ADDR == 31
AMBIENT_REG == 5
NULL == 0
SENTINEL == -1000
SCALE == 16
BYTE_MAX == 255

\* Number of connection objects the event manager can hold at once.
MaxConn == 2

ConnIds == 1..MaxConn

Pins == {LED_GPIO, RELAY_GPIO}
GPIO_LEVEL_LOW == "GPIO_LEVEL_LOW"
GPIO_LEVEL_HIGH == "GPIO_LEVEL_HIGH"
Levels == {GPIO_LEVEL_LOW, GPIO_LEVEL_HIGH}
GPIO_MODE_INPUT == "GPIO_MODE_INPUT"
GPIO_MODE_OUTPUT == "GPIO_MODE_OUTPUT"

I2C_ACK == "I2C_ACK"
I2C_NAK == "I2C_NAK"
I2C_ERR == "I2C_ERR"
AckTypes == {I2C_ACK, I2C_NAK, I2C_ERR}

MG_EV_POLL == "MG_EV_POLL"
MG_EV_CONNECT == "MG_EV_CONNECT"
MG_EV_RECV == "MG_EV_RECV"
MG_EV_CLOSE == "MG_EV_CLOSE"
MG_EV_HTTP_REQUEST == "MG_EV_HTTP_REQUEST"
MG_EV_HTTP_REPLY == "MG_EV_HTTP_REPLY"
MG_F_SEND_AND_CLOSE == "MG_F_SEND_AND_CLOSE"
MG_F_CLOSE_IMMEDIATELY == "MG_F_CLOSE_IMMEDIATELY"

\* Events an endpoint handler can be called with.
EndpointEvents == {MG_EV_HTTP_REQUEST, MG_EV_POLL}
\* Events the outbound connection's handler can be called with.
ConnEvents == {MG_EV_POLL, MG_EV_CONNECT, MG_EV_RECV, MG_EV_HTTP_REPLY, MG_EV_CLOSE}

\* An absent (NULL) configuration string.
NoString == "(null)"

\* Configuration values the device can be provisioned with.
Intervals == {-1, 0, 1000}
Urls == {NoString, "http://hsw/sensor"}
Auths == {NoString, "Basic dXNlcg=="}
Configs == [sensor_report_interval_ms : Intervals, sensor_data_url : Urls, auth : Auths]

\* Request paths, as character sequences.
P_HEATER == <<"/", "h", "e", "a", "t", "e", "r">>
P_HEATER_SLASH == P_HEATER \o <<"/">>
P_HEATER_ON == P_HEATER_SLASH \o <<"o", "n">>
P_HEATER_OFF == P_HEATER_SLASH \o <<"o", "f", "f">>
P_DEBUG == <<"/", "d", "e", "b", "u", "g">>
Uris == {P_HEATER, P_HEATER_SLASH, P_HEATER_ON, P_HEATER_OFF, P_DEBUG,
         P_HEATER_SLASH \o <<"o">>,
         P_HEATER_ON \o <<"e">>,
         P_HEATER_OFF \o <<"/">>,
         P_HEATER_SLASH \o <<"O", "N">>,
         <<"/">>}

\* Register bytes the sensor answers with.
UpperBytes == {0, 1, 16, 31, 225}
LowerBytes == {0, 88, 240}
\* The answers to one read; the bytes of a read that is not acknowledged are
\* never transferred and are left at 0.
BusReplies ==
    [ack1 : {I2C_ACK}, ack2 : {I2C_ACK}, upper : UpperBytes, lower : LowerBytes]
    \cup [ack1 : AckTypes, ack2 : AckTypes \ {I2C_ACK}, upper : {0}, lower : {0}]
    \cup [ack1 : AckTypes \ {I2C_ACK}, ack2 : {I2C_ACK}, upper : {0}, lower : {0}]

\* Values of mg_time() and mg_get_free_heap_size() seen by /debug.
Times == {0, 1}
Heaps == {1024}

\* Every answer the sensor can give to one read; the bytes of a read that
\* is not acknowledged are never transferred and are left at 0.
AllBusReplies ==
    [ack1 : {I2C_ACK}, ack2 : {I2C_ACK}, upper : 0..BYTE_MAX, lower : 0..BYTE_MAX]
    \cup [ack1 : AckTypes, ack2 : AckTypes \ {I2C_ACK}, upper : {0}, lower : {0}]
    \cup [ack1 : AckTypes \ {I2C_ACK}, ack2 : {I2C_ACK}, upper : {0}, lower : {0}]

VARIABLES pc, cfg, gpio_mode, gpio, s_i2c, s_heater, s_sensor_conn,
          endpoints, timer, live, flags,
          call, logs, bus, readings, resp, posts, wire

vars == <<pc, cfg, gpio_mode, gpio, s_i2c, s_heater, s_sensor_conn,
          endpoints, timer, live, flags,
          call, logs, bus, readings, resp, posts, wire>>

\* wire holds what the sensor answers in the bus transaction of the handler
\* invocation recorded in call; NoWire when that invocation reads nothing.
NoWire == [ack1 |-> "none", ack2 |-> "none", upper |-> 0, lower |-> 0]

\* The part of a bus answer that the transaction actually transfers.
Seen(b) ==
    IF b.ack1 # I2C_ACK THEN [NoWire EXCEPT !.ack1 = b.ack1]
    ELSE IF b.ack2 # I2C_ACK THEN [NoWire EXCEPT !.ack1 = b.ack1, !.ack2 = b.ack2]
    ELSE b

NoResp == [status |-> 0, headers |-> <<>>, body |-> <<>>, flags |-> {}]
NoTimer == [armed |-> FALSE, msecs |-> 0, repeat |-> FALSE]

Min(a, b) == IF a < b THEN a ELSE b

(* --------------------------- pure functions --------------------------- *)

\* mg_vcmp: memcmp over the common prefix, then the length difference.
\* Callers only test the result against 0, so a byte difference is 1.
mg_vcmp(str, lit) ==
    LET n == Min(Len(str), Len(lit))
        diff == {i \in 1..n : str[i] # lit[i]}
    IN  IF diff # {} THEN 1 ELSE Len(str) - Len(lit)

\* printf("%.2lf") of a value given in sixteenths: the result in hundredths,
\* ties rounded to even.
Fmt2(t16) ==
    LET a == (IF t16 < 0 THEN -t16 ELSE t16) * 100
        q == a \div SCALE
        r == a % SCALE
        h == IF 2 * r < SCALE THEN q
             ELSE IF 2 * r > SCALE THEN q + 1
             ELSE IF q % 2 = 0 THEN q ELSE q + 1
    IN  IF t16 < 0 THEN -h ELSE h

\* Lines 41-47: the value, in sixteenths, of the two register bytes.
Decode_no_mask(upper, lower) ==
    IF (upper \div 16) % 2 = 1
    THEN -(256 * SCALE - ((upper % 16) * 16 * SCALE + lower))
    ELSE upper * 16 * SCALE + lower

Decode_sign_kept(upper, lower) ==
    LET upper5 == upper % 32
    IN  IF (upper5 \div 16) % 2 = 1
        THEN -(256 * SCALE - (upper5 * 16 * SCALE + lower))
        ELSE upper5 * 16 * SCALE + lower

Decode(upper, lower) ==
    LET upper5 == upper % 32
    IN  IF (upper5 \div 16) % 2 = 1
        THEN -(256 * SCALE - ((upper5 % 16) * 16 * SCALE + lower))
        ELSE upper5 * 16 * SCALE + lower

\* Lines 31-40: the bus operations of a fully acknowledged read, in order.
ReadTransaction_acks_swapped ==
    <<<<"start", MCP9808_ADDR, "I2C_WRITE">>,
      <<"send_byte", AMBIENT_REG>>,
      <<"start", MCP9808_ADDR, "I2C_READ">>,
      <<"read_byte", I2C_NAK>>,
      <<"read_byte", I2C_ACK>>,
      <<"stop">>>>

ReadTransaction ==
    <<<<"start", MCP9808_ADDR, "I2C_WRITE">>,
      <<"send_byte", AMBIENT_REG>>,
      <<"start", MCP9808_ADDR, "I2C_READ">>,
      <<"read_byte", I2C_ACK>>,
      <<"read_byte", I2C_NAK>>,
      <<"stop">>>>

\* A read that does not look at the answer to the write start.
mc6808_read_temp_unchecked(b) ==
    IF b.ack2 # I2C_ACK
    THEN [ret |-> SENTINEL * SCALE, ops |-> SubSeq(ReadTransaction, 1, 3)]
    ELSE [ret |-> Decode(b.upper, b.lower), ops |-> ReadTransaction]

\* mc6808_read_temp against a bus that answers with b: the value returned
\* (in sixteenths) and the bus operations issued, in order.
mc6808_read_temp(b) ==
    IF b.ack1 # I2C_ACK
    THEN [ret |-> SENTINEL * SCALE, ops |-> SubSeq(ReadTransaction, 1, 1)]
    ELSE IF b.ack2 # I2C_ACK
    THEN [ret |-> SENTINEL * SCALE, ops |-> SubSeq(ReadTransaction, 1, 3)]
    ELSE [ret |-> Decode(b.upper, b.lower), ops |-> ReadTransaction]

\* The endpoint whose registered name is the longest prefix of the path.
IsPrefix(p, s) == Len(p) <= Len(s) /\ \A i \in 1..Len(p) : p[i] = s[i]

Route(uri) ==
    LET m == {i \in 1..Len(endpoints) : IsPrefix(endpoints[i].name, uri)}
    IN  IF m = {} THEN "none"
        ELSE LET best == CHOOSE i \in m :
                            \A j \in m : Len(endpoints[j].name) <= Len(endpoints[i].name)
             IN  endpoints[best].handler

(* ------------------------------- state -------------------------------- *)

Init ==
    /\ pc = "boot"
    /\ cfg \in Configs
    /\ gpio_mode = [p \in Pins |-> GPIO_MODE_INPUT]
    /\ gpio \in [Pins -> Levels]
    /\ s_i2c = [sda_gpio |-> 0, scl_gpio |-> 0, started |-> 0]
    /\ s_heater = FALSE
    /\ s_sensor_conn = NULL
    /\ endpoints = <<>>
    /\ timer = NoTimer
    /\ live = {}
    /\ flags = [c \in ConnIds |-> {}]
    /\ call = [fn |-> "none", ev |-> "none", uri |-> <<>>, nc |-> NULL, tick |-> 0]
    /\ logs = <<>>
    /\ bus = <<>>
    /\ readings = <<>>
    /\ resp = NoResp
    /\ posts = <<>>
    /\ wire = NoWire

Called(fn, ev, uri, nc) ==
    call' = [fn |-> fn, ev |-> ev, uri |-> uri, nc |-> nc, tick |-> 1 - call.tick]

(* ------------------------------ bootstrap ----------------------------- *)

\* Lines 141-142: both outputs are driven low.
InitLevels_led_only == [gpio EXCEPT ![LED_GPIO] = GPIO_LEVEL_LOW]

InitLevels == [p \in Pins |-> GPIO_LEVEL_LOW]

\* Line 154: the condition under which the report timer is set.
ReportConfigured_either ==
    cfg.sensor_report_interval_ms > 0 \/ cfg.sensor_data_url # NoString

ReportConfigured ==
    cfg.sensor_report_interval_ms > 0 /\ cfg.sensor_data_url # NoString

mg_app_init ==
    /\ pc = "boot"
    /\ pc' = "run"
    /\ gpio_mode' = [p \in Pins |-> GPIO_MODE_OUTPUT]
    /\ gpio' = InitLevels
    /\ endpoints' = <<[name |-> P_HEATER_SLASH, handler |-> "handle_heater_action"],
                      [name |-> P_HEATER, handler |-> "handle_heater"],
                      [name |-> P_DEBUG, handler |-> "handle_debug"]>>
    /\ s_i2c' = [sda_gpio |-> I2C_SDA_GPIO, scl_gpio |-> I2C_SCL_GPIO, started |-> 0]
    /\ timer' = IF ReportConfigured
                THEN [armed |-> TRUE, msecs |-> cfg.sensor_report_interval_ms,
                      repeat |-> TRUE]
                ELSE timer
    /\ Called("mg_app_init", "none", <<>>, NULL)
    /\ logs' = <<>> /\ bus' = <<>> /\ readings' = <<>> /\ resp' = NoResp /\ posts' = <<>>
    /\ wire' = NoWire
    /\ UNCHANGED <<cfg, s_heater, s_sensor_conn, live, flags>>

(* ------------------------------ actuator ------------------------------ *)

set_heater_stale(on) ==
    /\ logs' = Append(<<>>, IF on THEN "Heater on" ELSE "Heater off")
    /\ gpio' = [gpio EXCEPT ![LED_GPIO] = IF on THEN GPIO_LEVEL_HIGH ELSE GPIO_LEVEL_LOW,
                            ![RELAY_GPIO] = IF on THEN GPIO_LEVEL_HIGH ELSE GPIO_LEVEL_LOW]
    /\ UNCHANGED s_heater

\* A setter that logs only a change of state.
set_heater_quiet(on) ==
    /\ logs' = IF s_heater = on THEN <<>>
               ELSE Append(<<>>, IF on THEN "Heater on" ELSE "Heater off")
    /\ gpio' = [gpio EXCEPT ![LED_GPIO] = IF on THEN GPIO_LEVEL_HIGH ELSE GPIO_LEVEL_LOW,
                            ![RELAY_GPIO] = IF on THEN GPIO_LEVEL_HIGH ELSE GPIO_LEVEL_LOW]
    /\ s_heater' = on

set_heater(on) ==
    /\ logs' = Append(<<>>, IF on THEN "Heater on" ELSE "Heater off")
    /\ gpio' = [gpio EXCEPT ![LED_GPIO] = IF on THEN GPIO_LEVEL_HIGH ELSE GPIO_LEVEL_LOW,
                            ![RELAY_GPIO] = IF on THEN GPIO_LEVEL_HIGH ELSE GPIO_LEVEL_LOW]
    /\ s_heater' = on

(* --------------------------- endpoint handlers ------------------------ *)

\* Lines 83 and 85: the path is exactly the literal.
Matches_prefix(uri, lit) ==
    Len(lit) <= Len(uri) /\ mg_vcmp(SubSeq(uri, 1, Len(lit)), lit) = 0

Matches(uri, lit) == mg_vcmp(uri, lit) = 0

handle_heater_action(ev, uri) ==
    /\ Called("handle_heater_action", ev, uri, NULL)
    /\ IF ev # MG_EV_HTTP_REQUEST
       THEN /\ UNCHANGED <<s_heater, gpio>>
            /\ logs' = <<>>
            /\ resp' = NoResp
       ELSE /\ IF Matches(uri, P_HEATER_ON)
               THEN set_heater(TRUE)
               ELSE IF Matches(uri, P_HEATER_OFF)
               THEN set_heater(FALSE)
               ELSE UNCHANGED <<s_heater, gpio>> /\ logs' = <<>>
            /\ resp' = [status |-> 302,
                        headers |-> <<<<"Location", P_HEATER>>>>,
                        body |-> <<>>,
                        flags |-> {MG_F_SEND_AND_CLOSE}]
    /\ bus' = <<>> /\ readings' = <<>> /\ posts' = <<>>
    /\ UNCHANGED <<pc, cfg, gpio_mode, s_i2c, s_sensor_conn, endpoints, timer, live, flags>>

HeaterActionRequest ==
    /\ pc = "run"
    /\ \E uri \in Uris, ev \in EndpointEvents :
          /\ Route(uri) = "handle_heater_action"
          /\ handle_heater_action(ev, uri)
    /\ wire' = NoWire

handle_heater(ev, uri, b) ==
    /\ Called("handle_heater", ev, uri, NULL)
    /\ IF ev # MG_EV_HTTP_REQUEST
       THEN bus' = <<>> /\ readings' = <<>> /\ resp' = NoResp
       ELSE   LET t == mc6808_read_temp(b) IN
                /\ bus' = t.ops
                /\ readings' = <<t.ret>>
                /\ resp' = [status |-> 200,
                            headers |-> <<<<"Content-Type", "text/html">>,
                                          <<"Connection", "close">>>>,
                            body |-> <<<<"Temperature", Fmt2(t.ret)>>,
                                       <<"Heater", IF s_heater THEN "on" ELSE "off">>,
                                       <<"action", IF s_heater THEN "off" ELSE "on">>,
                                       <<"Turn heater", IF s_heater THEN "off" ELSE "on">>>>,
                            flags |-> {MG_F_SEND_AND_CLOSE}]
    /\ logs' = <<>> /\ posts' = <<>>
    /\ UNCHANGED <<pc, cfg, gpio_mode, gpio, s_i2c, s_heater, s_sensor_conn,
                   endpoints, timer, live, flags>>

handle_debug(ev, uri) ==
    /\ Called("handle_debug", ev, uri, NULL)
    /\ IF ev # MG_EV_HTTP_REQUEST
       THEN resp' = NoResp
       ELSE \E now \in Times, heap \in Heaps :
              resp' = [status |-> 200,
                       headers |-> <<<<"Content-Type", "text/plain">>,
                                     <<"Connection", "close">>>>,
                       body |-> <<<<"Time", now>>, <<"Free RAM", heap>>>>,
                       flags |-> {MG_F_SEND_AND_CLOSE}]
    /\ logs' = <<>> /\ bus' = <<>> /\ readings' = <<>> /\ posts' = <<>>
    /\ UNCHANGED <<pc, cfg, gpio_mode, gpio, s_i2c, s_heater, s_sensor_conn,
                   endpoints, timer, live, flags>>

(* --------------------------- periodic reporter ------------------------ *)

\* What mg_connect_http can return: NULL when the connection cannot be
\* created, otherwise a connection object that is not in use.
mg_connect_http == {NULL} \cup (ConnIds \ live)

\* A handler that frees the slot as soon as the reply arrives.
handle_sensor_conn_clear_on_reply(nc, ev) ==
    /\ Called("handle_sensor_conn", ev, <<>>, nc)
    /\ IF ev = MG_EV_HTTP_REPLY \/ ev = MG_EV_CLOSE
       THEN /\ s_sensor_conn' = NULL
            /\ UNCHANGED flags
       ELSE UNCHANGED <<s_sensor_conn, flags>>
    /\ logs' = <<>> /\ bus' = <<>> /\ readings' = <<>> /\ resp' = NoResp /\ posts' = <<>>
    /\ UNCHANGED <<pc, cfg, gpio_mode, gpio, s_i2c, s_heater, endpoints, timer>>

\* A handler that forgets to free the slot on close.
handle_sensor_conn_no_clear(nc, ev) ==
    /\ Called("handle_sensor_conn", ev, <<>>, nc)
    /\ IF ev = MG_EV_HTTP_REPLY
       THEN /\ flags' = [flags EXCEPT ![nc] = @ \cup {MG_F_CLOSE_IMMEDIATELY}]
            /\ UNCHANGED s_sensor_conn
       ELSE UNCHANGED <<s_sensor_conn, flags>>
    /\ logs' = <<>> /\ bus' = <<>> /\ readings' = <<>> /\ resp' = NoResp /\ posts' = <<>>
    /\ UNCHANGED <<pc, cfg, gpio_mode, gpio, s_i2c, s_heater, endpoints, timer>>

handle_sensor_conn(nc, ev) ==
    /\ Called("handle_sensor_conn", ev, <<>>, nc)
    /\ IF ev = MG_EV_HTTP_REPLY
       THEN /\ flags' = [flags EXCEPT ![nc] = @ \cup {MG_F_CLOSE_IMMEDIATELY}]
            /\ UNCHANGED s_sensor_conn
       ELSE IF ev = MG_EV_CLOSE
       THEN /\ s_sensor_conn' = NULL
            /\ UNCHANGED flags
       ELSE UNCHANGED <<s_sensor_conn, flags>>
    /\ logs' = <<>> /\ bus' = <<>> /\ readings' = <<>> /\ resp' = NoResp /\ posts' = <<>>
    /\ UNCHANGED <<pc, cfg, gpio_mode, gpio, s_i2c, s_heater, endpoints, timer>>

\* Line 122: a report is in progress.
InProgress_never == FALSE

\* Treats a report whose reply has arrived as already finished.
InProgress_until_reply ==
    s_sensor_conn # NULL /\ MG_F_CLOSE_IMMEDIATELY \notin flags[s_sensor_conn]

InProgress == s_sensor_conn # NULL

\* Line 124: the reading is the error value.
IsError_strict(temp) == temp < SENTINEL * SCALE

IsError_inverted(temp) == temp >= SENTINEL * SCALE

IsError_negative(temp) == temp < 0

IsError(temp) == temp <= SENTINEL * SCALE

sensor_timer_cb(b) ==
    /\ Called("sensor_timer_cb", "none", <<>>, NULL)
    /\ IF InProgress
       THEN /\ bus' = <<>> /\ readings' = <<>> /\ posts' = <<>>
            /\ UNCHANGED <<s_sensor_conn, live, flags>>
       ELSE   LET t == mc6808_read_temp(b) IN
                /\ bus' = t.ops
                /\ readings' = <<t.ret>>
                /\ IF IsError(t.ret)
                   THEN /\ posts' = <<>>
                        /\ UNCHANGED <<s_sensor_conn, live, flags>>
                   ELSE \E nc \in mg_connect_http :
                          /\ s_sensor_conn' = nc
                          /\ live' = IF nc = NULL THEN live ELSE live \cup {nc}
                          /\ flags' = IF nc = NULL THEN flags
                                      ELSE [flags EXCEPT ![nc] = {}]
                          /\ posts' = <<[nc |-> nc,
                                         url |-> cfg.sensor_data_url,
                                         extra_headers |->
                                            IF cfg.auth # NoString
                                            THEN <<<<"Authorization", cfg.auth>>>>
                                            ELSE <<>>,
                                         post_data |-> <<<<"office_temperature",
                                                          Fmt2(t.ret)>>>>]>>
    /\ logs' = <<>> /\ resp' = NoResp
    /\ UNCHANGED <<pc, cfg, gpio_mode, gpio, s_i2c, s_heater, endpoints, timer>>

(* ------------------------ event loop dispatch ------------------------- *)

HeaterRequest ==
    /\ pc = "run"
    /\ \E uri \in Uris, ev \in EndpointEvents, b \in BusReplies :
          /\ Route(uri) = "handle_heater"
          /\ handle_heater(ev, uri, b)
          /\ wire' = IF bus' = <<>> THEN NoWire ELSE Seen(b)

DebugRequest ==
    /\ pc = "run"
    /\ \E uri \in Uris, ev \in EndpointEvents :
          /\ Route(uri) = "handle_debug"
          /\ handle_debug(ev, uri)
    /\ wire' = NoWire

TimerFire ==
    /\ pc = "run"
    /\ timer.armed
    /\ \E b \in BusReplies :
          /\ sensor_timer_cb(b)
          /\ wire' = IF bus' = <<>> THEN NoWire ELSE Seen(b)

\* The event manager calls the outbound connection's handler.  After the
\* handler asked for MG_F_CLOSE_IMMEDIATELY only polling and the close are
\* left; the close event is the last one and removes the connection.
Deliver(nc, ev) ==
    /\ pc = "run"
    /\ nc \in live
    /\ MG_F_CLOSE_IMMEDIATELY \in flags[nc] => ev \in {MG_EV_POLL, MG_EV_CLOSE}
    /\ handle_sensor_conn(nc, ev)
    /\ live' = IF ev = MG_EV_CLOSE THEN live \ {nc} ELSE live
    /\ wire' = NoWire

SensorConnProgress ==
    \E nc \in ConnIds, ev \in {MG_EV_POLL, MG_EV_CONNECT, MG_EV_RECV} : Deliver(nc, ev)

SensorConnReply ==
    \E nc \in ConnIds : Deliver(nc, MG_EV_HTTP_REPLY)

SensorConnClose ==
    \E nc \in ConnIds : Deliver(nc, MG_EV_CLOSE)

Next ==
    \/ mg_app_init
    \/ HeaterRequest
    \/ HeaterActionRequest
    \/ DebugRequest
    \/ TimerFire
    \/ SensorConnProgress
    \/ SensorConnReply
    \/ SensorConnClose

Spec == Init /\ [][Next]_vars

\* The event manager eventually delivers the reply or the close of every
\* connection it opened, and closes a connection flagged for closing.
LiveSpec == Spec /\ WF_vars(SensorConnReply \/ SensorConnClose)

(* ---------------- first event after bootstrap, any register ----------- *)

\* The device right after mg_app_init with the reporter configured, and the
\* sensor about to give any of its possible answers.
ProbeInit ==
    /\ pc = "run"
    /\ cfg = [sensor_report_interval_ms |-> 1000,
              sensor_data_url |-> "http://hsw/sensor",
              auth |-> NoString]
    /\ gpio_mode = [p \in Pins |-> GPIO_MODE_OUTPUT]
    /\ gpio = [p \in Pins |-> GPIO_LEVEL_LOW]
    /\ s_i2c = [sda_gpio |-> I2C_SDA_GPIO, scl_gpio |-> I2C_SCL_GPIO, started |-> 0]
    /\ s_heater = FALSE
    /\ s_sensor_conn = NULL
    /\ endpoints = <<[name |-> P_HEATER_SLASH, handler |-> "handle_heater_action"],
                     [name |-> P_HEATER, handler |-> "handle_heater"],
                     [name |-> P_DEBUG, handler |-> "handle_debug"]>>
    /\ timer = [armed |-> TRUE, msecs |-> 1000, repeat |-> TRUE]
    /\ live = {}
    /\ flags = [c \in ConnIds |-> {}]
    /\ call = [fn |-> "mg_app_init", ev |-> "none", uri |-> <<>>, nc |-> NULL, tick |-> 1]
    /\ logs = <<>>
    /\ bus = <<>>
    /\ readings = <<>>
    /\ resp = NoResp
    /\ posts = <<>>
    /\ wire \in AllBusReplies

ProbeTimer ==
    /\ call.fn = "mg_app_init"
    /\ timer.armed
    /\ sensor_timer_cb(wire)
    /\ UNCHANGED wire

ProbeStatus ==
    /\ call.fn = "mg_app_init"
    /\ Route(P_HEATER) = "handle_heater"
    /\ handle_heater(MG_EV_HTTP_REQUEST, P_HEATER, wire)
    /\ UNCHANGED wire

ProbeNext == ProbeTimer \/ ProbeStatus

ProbeSpec == ProbeInit /\ [][ProbeNext]_vars

(* ------------------------------ properties ---------------------------- *)

Level(on) == IF on THEN GPIO_LEVEL_HIGH ELSE GPIO_LEVEL_LOW
TimerRan == call.fn = "sensor_timer_cb"
TimerStep == call'.fn = "sensor_timer_cb" /\ call'.tick # call.tick
ValidReading == readings # <<>> /\ readings[1] > SENTINEL * SCALE
ActionRequested == call.fn = "handle_heater_action" /\ call.ev = MG_EV_HTTP_REQUEST

\* C1: in every reachable state at most one outbound report connection is
\* outstanding, and an outstanding connection is the one the handle names.
C1_SingleFlight ==
    /\ Cardinality(live) <= 1
    /\ live \subseteq {s_sensor_conn}

\* A reply has arrived for the outstanding report, which is not yet closed.
C1_Witness ==
    /\ Cardinality(live) = 1
    /\ call.fn = "handle_sensor_conn"
    /\ call.ev = MG_EV_HTTP_REPLY

\* C2: a timer firing while a report is in progress creates no connection
\* and leaves the handle and the connection as they were.
C2_TimerWhileReportingIsNoOp ==
    [][(TimerStep /\ s_sensor_conn # NULL) =>
          /\ s_sensor_conn' = s_sensor_conn
          /\ live' = live
          /\ flags' = flags
          /\ posts' = <<>>
          /\ bus' = <<>>]_vars

\* The timer has fired while a report was in progress.
C2_Witness ==
    /\ TimerRan
    /\ s_sensor_conn # NULL
    /\ s_sensor_conn \in live
    /\ posts = <<>>

\* C3: a timer firing whose sensor read returns the error value creates no
\* connection and leaves the reporter idle.
C3_FailedReadSendsNothing ==
    (TimerRan /\ readings # <<>> /\ readings[1] = SENTINEL * SCALE) =>
        /\ posts = <<>>
        /\ s_sensor_conn = NULL
        /\ live = {}

\* The timer fired while idle and the read start was not acknowledged.
C3_Witness ==
    /\ TimerRan
    /\ readings = <<SENTINEL * SCALE>>
    /\ bus # <<>>
    /\ s_sensor_conn = NULL

\* C4 as stated: a timer firing while idle with a valid reading dispatches
\* exactly one POST, records its handle and enters Reporting.
C4_AlwaysReporting ==
    (TimerRan /\ ValidReading) =>
        /\ Len(posts) = 1
        /\ s_sensor_conn # NULL
        /\ live = {s_sensor_conn}

\* C4: a timer firing while idle with a valid reading makes exactly one
\* mg_connect_http call to the configured URL and records what it returned:
\* a connection, which is then the one outstanding report, or NULL, in which
\* case nothing is outstanding and the reporter is still idle.
C4_OneAttemptRecorded ==
    (TimerRan /\ ValidReading) =>
        /\ Len(posts) = 1
        /\ posts[1].url = cfg.sensor_data_url
        /\ s_sensor_conn = posts[1].nc
        /\ live = {posts[1].nc} \ {NULL}
        /\ s_sensor_conn # NULL => flags[s_sensor_conn] = {}

\* The timer fired while idle, read a valid temperature and opened the report.
C4_Witness ==
    /\ TimerRan
    /\ ValidReading
    /\ Len(posts) = 1
    /\ s_sensor_conn # NULL
    /\ live = {s_sensor_conn}

\* C5 as stated: whenever the reply or the close callback of the outbound
\* connection has run, the handle is empty.
C5_ClearedOnReplyOrClose ==
    (call.fn = "handle_sensor_conn" /\ call.ev \in {MG_EV_HTTP_REPLY, MG_EV_CLOSE}) =>
        s_sensor_conn = NULL

\* C5: the close callback empties the handle unconditionally; the reply
\* callback only marks the connection to be closed immediately and leaves
\* the handle on that connection.
C5_ClearedOnClose ==
    call.fn = "handle_sensor_conn" =>
        /\ call.ev = MG_EV_CLOSE =>
              s_sensor_conn = NULL /\ call.nc \notin live
        /\ call.ev = MG_EV_HTTP_REPLY =>
              /\ MG_F_CLOSE_IMMEDIATELY \in flags[call.nc]
              /\ s_sensor_conn = call.nc
              /\ call.nc \in live

\* The outbound connection was closed without a reply having been delivered.
C5_Witness ==
    /\ call.fn = "handle_sensor_conn"
    /\ call.ev = MG_EV_CLOSE
    /\ MG_F_CLOSE_IMMEDIATELY \notin flags[call.nc]
    /\ s_sensor_conn = NULL

\* C6: when the event manager delivers the reply or the close of every
\* connection it opened, every Reporting state is followed by an Idle one.
C6_ReportingLeadsToIdle ==
    (s_sensor_conn # NULL) ~> (s_sensor_conn = NULL)

\* A report that got its reply has been closed and the slot is free again.
C6_Witness ==
    /\ call.fn = "handle_sensor_conn"
    /\ call.ev = MG_EV_CLOSE
    /\ MG_F_CLOSE_IMMEDIATELY \in flags[call.nc]
    /\ s_sensor_conn = NULL
    /\ live = {}

\* C7: the timer is armed only with a positive interval and a URL; when it
\* is not armed the timer callback never runs, the handle stays empty and no
\* outbound connection exists.
C7_InertUnlessConfigured ==
    /\ timer.armed =>
          cfg.sensor_report_interval_ms > 0 /\ cfg.sensor_data_url # NoString
    /\ ~timer.armed =>
          /\ ~TimerRan
          /\ s_sensor_conn = NULL
          /\ live = {}
          /\ posts = <<>>

\* A device with a URL but a zero interval is serving requests, timer unarmed.
C7_Witness ==
    /\ pc = "run"
    /\ ~timer.armed
    /\ cfg.sensor_data_url # NoString
    /\ cfg.sensor_report_interval_ms = 0
    /\ call.fn = "handle_heater"

\* C8: after bootstrap, between handler invocations, both outputs are at the
\* level of the stored actuator boolean.
C8_OutputsFollowHeater ==
    pc = "run" =>
        /\ gpio[LED_GPIO] = Level(s_heater)
        /\ gpio[RELAY_GPIO] = Level(s_heater)

\* The heater is on and an unrelated request has been served since.
C8_Witness ==
    /\ pc = "run"
    /\ s_heater
    /\ gpio[RELAY_GPIO] = GPIO_LEVEL_HIGH
    /\ call.fn = "handle_debug"

\* C9: after a set call with value b the stored boolean is b, both outputs
\* are at b's level and that call emitted exactly one log line.
C9_SetThenGet ==
    \A b \in BOOLEAN :
        (ActionRequested /\ call.uri = (IF b THEN P_HEATER_ON ELSE P_HEATER_OFF)) =>
            /\ s_heater = b
            /\ gpio[LED_GPIO] = Level(b)
            /\ gpio[RELAY_GPIO] = Level(b)
            /\ logs = <<IF b THEN "Heater on" ELSE "Heater off">>

\* The heater has just been set on.
C9_Witness ==
    /\ ActionRequested
    /\ call.uri = P_HEATER_ON
    /\ s_heater
    /\ Len(logs) = 1

\* C10: a request delivered to the action handler turns the actuator on for
\* exactly /heater/on, off for exactly /heater/off, and for any other path
\* writes nothing and logs nothing; it always answers 302 to /heater and
\* marks the connection to be closed.
C10_ActionHandler ==
    [][(call'.fn = "handle_heater_action" /\ call'.ev = MG_EV_HTTP_REQUEST
        /\ call'.tick # call.tick) =>
          /\ resp'.status = 302
          /\ resp'.headers = <<<<"Location", P_HEATER>>>>
          /\ MG_F_SEND_AND_CLOSE \in resp'.flags
          /\ call'.uri = P_HEATER_ON => s_heater' /\ logs' = <<"Heater on">>
          /\ call'.uri = P_HEATER_OFF => ~s_heater' /\ logs' = <<"Heater off">>
          /\ call'.uri \notin {P_HEATER_ON, P_HEATER_OFF} =>
                /\ s_heater' = s_heater
                /\ gpio' = gpio
                /\ logs' = <<>>]_vars

\* An unrecognised path under /heater/ was requested while the heater was on.
C10_Witness ==
    /\ ActionRequested
    /\ call.uri \notin {P_HEATER_ON, P_HEATER_OFF}
    /\ resp.status = 302
    /\ s_heater

StatusServed == call.fn = "handle_heater" /\ call.ev = MG_EV_HTTP_REQUEST
Acked == wire.ack1 = I2C_ACK /\ wire.ack2 = I2C_ACK
HttpHandlers == {"handle_heater", "handle_heater_action", "handle_debug"}

\* C11: the status page of a read that returned the error value has no
\* numeric temperature field; the page of a valid read has exactly one, the
\* reading rounded to the nearest hundredth.
C11_StatusPageTemperature ==
    StatusServed =>
        LET shown == {resp.body[i][2] :
                        i \in {j \in DOMAIN resp.body : resp.body[j][1] = "Temperature"}}
            t == readings[1]
        IN  /\ t = SENTINEL * SCALE => shown = {}
            /\ t # SENTINEL * SCALE =>
                  \E h \in shown :
                     /\ shown = {h}
                     /\ 2 * (100 * t - SCALE * h) <= SCALE
                     /\ 2 * (SCALE * h - 100 * t) <= SCALE

\* C12: a fully acknowledged read whose masked upper byte has bit 4 clear
\* returns (upper & 0x1F) * 256 + lower sixteenths, whatever bits 5-7 are.
C12_PositiveDecode ==
    (readings # <<>> /\ Acked /\ ((wire.upper % 32) \div 16) % 2 = 0) =>
        readings[1] = (wire.upper % 32) * 256 + wire.lower

\* Upper byte 0xE5 with lower byte 0x08 was read as 80.5 degrees.
C12_Witness ==
    /\ Acked
    /\ wire.upper = 229
    /\ wire.lower = 8
    /\ readings = <<1288>>

\* C13: a fully acknowledged read whose masked upper byte has bit 4 set
\* returns -(4096 - ((upper & 0xF) * 256 + lower)) sixteenths.
C13_NegativeDecode ==
    (readings # <<>> /\ Acked /\ ((wire.upper % 32) \div 16) % 2 = 1) =>
        readings[1] = -(4096 - ((wire.upper % 16) * 256 + wire.lower))

\* Upper byte 0x1F with lower byte 0xF0 was read as -1.0 degrees.
C13_Witness ==
    /\ Acked
    /\ wire.upper = 31
    /\ wire.lower = 240
    /\ readings = <<-16>>

\* C14: a read whose write start is not acknowledged returns the error value
\* after that one start; a read whose read start is not acknowledged returns
\* it after write start, register byte and read start, with no byte read.
C14_UnackedStartStops ==
    readings # <<>> =>
        /\ wire.ack1 # I2C_ACK =>
              /\ readings = <<SENTINEL * SCALE>>
              /\ bus = <<<<"start", MCP9808_ADDR, "I2C_WRITE">>>>
        /\ (wire.ack1 = I2C_ACK /\ wire.ack2 # I2C_ACK) =>
              /\ readings = <<SENTINEL * SCALE>>
              /\ bus = <<<<"start", MCP9808_ADDR, "I2C_WRITE">>,
                         <<"send_byte", 5>>,
                         <<"start", MCP9808_ADDR, "I2C_READ">>>>

\* The status page was requested and the write start got a bus error.
C14_Witness ==
    /\ StatusServed
    /\ wire.ack1 = I2C_ERR
    /\ Len(bus) = 1
    /\ readings = <<SENTINEL * SCALE>>

\* C15: setting the actuator to the value it already has leaves the boolean
\* and both outputs unchanged, redirects, and logs exactly one line.
C15_IdempotentSet ==
    [][\A b \in BOOLEAN :
          (/\ call'.fn = "handle_heater_action"
           /\ call'.ev = MG_EV_HTTP_REQUEST
           /\ call'.tick # call.tick
           /\ call'.uri = (IF b THEN P_HEATER_ON ELSE P_HEATER_OFF)
           /\ s_heater = b) =>
               /\ s_heater' = s_heater
               /\ gpio' = gpio
               /\ resp'.status = 302
               /\ Len(logs') = 1]_vars

\* /heater/off was requested and the heater is off with both outputs low.
C15_Witness ==
    /\ ActionRequested
    /\ call.uri = P_HEATER_OFF
    /\ ~s_heater
    /\ gpio = [p \in Pins |-> GPIO_LEVEL_LOW]
    /\ logs = <<"Heater off">>

\* C16: a non-empty handle changes only by being emptied in the close
\* callback of the connection it names, which is then gone; the timer never
\* overwrites it and no HTTP handler changes the handle.
C16_HandleClearedOnlyByCallback ==
    [][/\ (s_sensor_conn # NULL /\ s_sensor_conn' # s_sensor_conn) =>
             /\ call'.fn = "handle_sensor_conn"
             /\ call'.nc = s_sensor_conn
             /\ s_sensor_conn' = NULL
             /\ s_sensor_conn \notin live'
       /\ call'.fn \in HttpHandlers => s_sensor_conn' = s_sensor_conn]_vars

\* A diagnostics request was served while a report was outstanding.
C16_Witness ==
    /\ call.fn = "handle_debug"
    /\ call.ev = MG_EV_HTTP_REQUEST
    /\ s_sensor_conn # NULL
    /\ s_sensor_conn \in live

C18_OnlySetHeaterWrites ==
    [][(pc = "run" /\ (s_heater' # s_heater \/ gpio' # gpio)) =>
          /\ call'.fn = "handle_heater_action"
          /\ call'.ev = MG_EV_HTTP_REQUEST
          /\ call'.uri \in {P_HEATER_ON, P_HEATER_OFF}
          /\ Len(logs') = 1]_vars

\* The timer callback ran while the heater was on and left it on.
C18_Witness ==
    /\ TimerRan
    /\ s_heater
    /\ gpio = [p \in Pins |-> GPIO_LEVEL_HIGH]

\* C19: a fully acknowledged read issues exactly write start, register
\* selector 5, read start, read with acknowledge, read without acknowledge
\* and stop, in that order.
C19_BusOrder ==
    (readings # <<>> /\ Acked) =>
        bus = <<<<"start", 31, "I2C_WRITE">>,
                <<"send_byte", 5>>,
                <<"start", 31, "I2C_READ">>,
                <<"read_byte", I2C_ACK>>,
                <<"read_byte", I2C_NAK>>,
                <<"stop">>>>

\* The timer callback made a fully acknowledged read that ended with the stop.
C19_Witness ==
    /\ TimerRan
    /\ Acked
    /\ Len(bus) = 6
    /\ bus[Len(bus)] = <<"stop">>

\* C20: every decoded value lies in [-256, 256) degrees, so a timer firing
\* while idle skips the report exactly when a start was not acknowledged and
\* attempts one for every decoded reading.
C20_SentinelDisjoint ==
    (TimerRan /\ readings # <<>>) =>
        /\ Acked =>
              /\ readings[1] >= -256 * SCALE
              /\ readings[1] < 256 * SCALE
              /\ Len(posts) = 1
        /\ ~Acked =>
              /\ readings[1] = SENTINEL * SCALE
              /\ posts = <<>>

\* The lowest decodable value, -256 degrees, was read and reported.
C20_Witness ==
    /\ TimerRan
    /\ Acked
    /\ readings = <<-256 * SCALE>>
    /\ Len(posts) = 1

====
